---- MODULE Spec2Model ----
(***************************************************************************)
(* Model of Aquarium.py: the Tank gas-equilibrium model (class Tank) and   *)
(* the utilities it calls (class Utils).                                   *)
(*                                                                         *)
(* Numbers.  Every quantity of the program is a Python float.  A float is  *)
(* modelled as a pair <<m, e>> standing for m * 2^e, with a significand of *)
(* P bits (2^(P-1) <= |m| < 2^P, or <<0, 0>> for zero) and every operation *)
(* rounded to nearest, ties to even, as IEEE-754 arithmetic does.          *)
(* Python's float has a significand of 53 bits; the model keeps the same   *)
(* arithmetic at a width P that can be enumerated, wide enough to hold the *)
(* program's integer constants exactly.  The exponent is not bounded: the  *)
(* inputs stay far from overflow and underflow.  NaN is the marker np.nan. *)
(* Python raises ZeroDivisionError on a float division by zero; FDiv       *)
(* yields the marker ZDE there and the operation that evaluated it is      *)
(* modelled as raising at that line.                                       *)
(***************************************************************************)
EXTENDS Integers, Sequences, FiniteSets, TLC

\* significand width of the modelled floats, in bits
P == 11

\* greatest number of operations called on one Tank
MaxCalls == 3

----------------------------------------------------------------------------
(* Floating-point arithmetic *)

NaN == <<0, 1>>
ZDE == <<0, 2>>
Zero == <<0, 0>>

IsNum(x) == x[1] # 0 \/ x = Zero

Abs(n) == IF n < 0 THEN -n ELSE n

Sgn(n) == IF n < 0 THEN -1 ELSE IF n > 0 THEN 1 ELSE 0

RECURSIVE BitLen(_)
BitLen(a) == IF a = 0 THEN 0 ELSE 1 + BitLen(a \div 2)

\* m * 2^e rounded to P significant bits, ties to even; sticky tells that
\* the exact value has further nonzero bits below those of m
Round(m, e, sticky) ==
    LET a == Abs(m)
        k == BitLen(a) - P
    IN  IF a = 0 THEN Zero
        ELSE IF k <= 0 THEN <<m * 2^(-k), e + k>>
        ELSE LET q    == a \div 2^k
                 r    == a % 2^k
                 half == 2^(k - 1)
                 up   == r > half \/ (r = half /\ (sticky \/ q % 2 = 1))
                 q1   == IF up THEN q + 1 ELSE q
             IN  IF q1 = 2^P THEN <<Sgn(m) * 2^(P - 1), e + k + 1>>
                 ELSE <<Sgn(m) * q1, e + k>>

\* the float nearest to the rational n / d  (n >= 0, d > 0): a literal
RoundQ(n, d) ==
    LET s == P + 2 + BitLen(d) - BitLen(n)
        k == IF s > 0 THEN s ELSE 0
        a == n * 2^k
    IN  Round(a \div d, -k, a % d # 0)

FromInt(n) == Round(n, 0, FALSE)

FNeg(x) == IF IsNum(x) THEN <<-x[1], x[2]>> ELSE x

FAdd(x, y) ==
    IF ~IsNum(x) \/ ~IsNum(y) THEN NaN
    ELSE IF x = Zero THEN y
    ELSE IF y = Zero THEN x
    ELSE LET hi == IF x[2] >= y[2] THEN x ELSE y
             lo == IF x[2] >= y[2] THEN y ELSE x
             d  == hi[2] - lo[2]
         IN  IF d > P + 2 THEN hi
             ELSE Round(hi[1] * 2^d + lo[1], lo[2], FALSE)

FSub(x, y) == FAdd(x, FNeg(y))

FMul(x, y) ==
    IF ~IsNum(x) \/ ~IsNum(y) THEN NaN
    ELSE Round(x[1] * y[1], x[2] + y[2], FALSE)

FDiv(x, y) ==
    IF y = Zero THEN ZDE
    ELSE IF ~IsNum(x) \/ ~IsNum(y) THEN NaN
    ELSE IF x = Zero THEN Zero
    ELSE LET a == Abs(x[1]) * 2^(P + 2)
             b == Abs(y[1])
         IN  Round(Sgn(x[1]) * Sgn(y[1]) * (a \div b), x[2] - y[2] - (P + 2),
                   a % b # 0)

\* x < 0, x > 0 as Python evaluates them (False on nan)
FNegative(x) == IsNum(x) /\ x[1] < 0

\* FPositive with >= in place of >
FPositive_or_zero(x) == IsNum(x) /\ x[1] >= 0

FPositive(x) == IsNum(x) /\ x[1] > 0

\* x < y
FLess(x, y) == FNegative(FSub(x, y))

\* numpy's rint: the nearest integer, ties to even
Rint(x) ==
    IF ~IsNum(x) \/ x[2] >= 0 THEN x
    ELSE IF -x[2] > P + 1 THEN Zero
    ELSE LET a    == Abs(x[1])
             d    == 2^(-x[2])
             q    == a \div d
             r    == a % d
             up   == 2 * r > d \/ (2 * r = d /\ q % 2 = 1)
         IN  FromInt(Sgn(x[1]) * (IF up THEN q + 1 ELSE q))

----------------------------------------------------------------------------
(* Module constants of Aquarium.py *)

CO2_density == FromInt(1964)
O2_density == FromInt(1430)
CO2_solubility == FromInt(1449)
O2_solubility == FromInt(40)

CO2_ratio == FDiv(CO2_density, CO2_solubility)
O2_ratio == FDiv(O2_density, O2_solubility)

CO2_MW == FromInt(44)
O2_MW == FromInt(32)

One == FromInt(1)

----------------------------------------------------------------------------
(* class Utils *)

M_to_ppm(M, mw) == FMul(FMul(M, mw), FromInt(1000))

ppm_to_molar(ppm, mw) == FDiv(FMul(ppm, RoundQ(1, 1000)), mw)

KH_to_HCO3(KH) == ppm_to_molar(FMul(RoundQ(218, 10), KH), RoundQ(610168, 10000))

\* pK1 + np.log10(HCO3/CO2).  The logarithm is numpy's; the value is kept as
\* the term pK1 + log10(arg); arg is ZDE when the division raises.
CO2_to_pH(CO2, KH) ==
    LET HCO3 == KH_to_HCO3(KH)
        CO2m == FDiv(CO2, FMul(FromInt(44), FromInt(1000)))
        arg  == FDiv(HCO3, CO2m)
    IN  [pK1 |-> RoundQ(652, 100), log10 |-> arg]

----------------------------------------------------------------------------
(* class Tank *)

\* get_CO2_values_from_conc that also overwrites the water concentration, with
\* the total concentration
get_CO2_values_from_conc_reanchor(t) ==
    LET wa == FMul(t.CO2_water_concentration, t.volume)
        ha == FMul(FMul(CO2_ratio, t.CO2_water_concentration), t.headspace)
        ta == FAdd(wa, ha)
        tc == FDiv(ta, FAdd(t.volume, t.headspace))
    IN  [t EXCEPT !.CO2_water_amount = wa,
                  !.CO2_headspace_amount = ha,
                  !.CO2_total_amount = ta,
                  !.CO2_total_concentration = tc,
                  !.CO2_water_concentration = tc,
                  !.CO2_headspace_concentration =
                      IF FPositive(t.headspace) THEN FDiv(ha, t.headspace) ELSE NaN]

\* get_CO2_values_from_conc: the Tank after the call
get_CO2_values_from_conc(t) ==
    LET wa == FMul(t.CO2_water_concentration, t.volume)
        ha == FMul(FMul(CO2_ratio, t.CO2_water_concentration), t.headspace)
        ta == FAdd(wa, ha)
    IN  [t EXCEPT !.CO2_water_amount = wa,
                  !.CO2_headspace_amount = ha,
                  !.CO2_total_amount = ta,
                  !.CO2_total_concentration = FDiv(ta, FAdd(t.volume, t.headspace)),
                  !.CO2_headspace_concentration =
                      IF FPositive(t.headspace) THEN FDiv(ha, t.headspace) ELSE NaN]

\* get_O2_values_from_conc: the Tank after the call, and whether the call
\* raised ZeroDivisionError at its last line (O2_amount_ratio not assigned)
get_O2_values_from_conc(t) ==
    LET wa == FMul(t.O2_water_concentration, t.volume)
        ha == FMul(FMul(O2_ratio, t.O2_water_concentration), t.headspace)
        ta == FAdd(wa, ha)
        t1 == [t EXCEPT !.O2_water_amount = wa,
                        !.O2_headspace_amount = ha,
                        !.O2_total_amount = ta,
                        !.O2_total_concentration = FDiv(ta, FAdd(t.volume, t.headspace)),
                        !.O2_headspace_concentration =
                            IF FPositive(t.headspace) THEN FDiv(ha, t.headspace) ELSE NaN]
        ar == FDiv(ha, wa)
    IN  IF ar = ZDE THEN [self |-> t1, raised |-> TRUE]
        ELSE [self |-> [t1 EXCEPT !.O2_amount_ratio = ar], raised |-> FALSE]

\* DataFrame.round(3) on one cell: numpy multiplies by 10^3, rounds to the
\* nearest integer and divides by 10^3
Round3(x) == IF IsNum(x) THEN FDiv(Rint(FMul(x, FromInt(1000))), FromInt(1000)) ELSE x

\* data_to_df: the table it stores in self.data, and whether it raised
data_to_df(t) ==
    LET pH == CO2_to_pH(t.CO2_water_concentration, t.KH)
    IN  [raised |-> pH.log10 = ZDE,
         data |->
           [headspace |-> <<Round3(t.CO2_headspace_concentration), Round3(t.CO2_headspace_amount),
                            Round3(t.O2_headspace_concentration), Round3(t.O2_headspace_amount), NaN>>,
            water |-> <<Round3(t.CO2_water_concentration), Round3(t.CO2_water_amount),
                        Round3(t.O2_water_concentration), Round3(t.O2_water_amount), pH>>,
            total |-> <<Round3(t.CO2_total_concentration), Round3(t.CO2_total_amount),
                        Round3(t.O2_total_concentration), Round3(t.O2_total_amount), NaN>>]]

\* the fields __init__ has assigned before it calls the derivations
NewTank(volume, headspace, KH, room_CO2_equilibrium, room_O2_equilibrium) ==
    [volume |-> volume, headspace |-> headspace, KH |-> KH,
     CO2_mass_ratio |-> FDiv(FMul(CO2_density, headspace), FMul(CO2_solubility, volume)),
     O2_mass_ratio |-> FDiv(FMul(O2_density, headspace), FMul(O2_solubility, volume)),
     CO2_water_concentration |-> room_CO2_equilibrium,
     O2_water_concentration |-> room_O2_equilibrium,
     CO2_water_amount |-> NaN, CO2_headspace_amount |-> NaN, CO2_total_amount |-> NaN,
     CO2_total_concentration |-> NaN, CO2_headspace_concentration |-> NaN,
     O2_water_amount |-> NaN, O2_headspace_amount |-> NaN, O2_total_amount |-> NaN,
     O2_total_concentration |-> NaN, O2_headspace_concentration |-> NaN,
     O2_amount_ratio |-> NaN]

\* Tank.__init__: the constructed Tank (the arguments used keep it from raising)
Tank(volume, headspace, KH, room_CO2_equilibrium, room_O2_equilibrium) ==
    get_O2_values_from_conc(
        get_CO2_values_from_conc(
            NewTank(volume, headspace, KH, room_CO2_equilibrium, room_O2_equilibrium))).self

\* CO2_produced with the two molar masses exchanged
CO2_produced_inverted(O2_used, RQ) ==
    FMul(FDiv(M_to_ppm(RQ, O2_MW), M_to_ppm(One, CO2_MW)), O2_used)

CO2_produced(O2_used, RQ) ==
    FMul(FDiv(M_to_ppm(RQ, CO2_MW), M_to_ppm(One, O2_MW)), O2_used)

\* the rejected branch of use_O2: O2_total_amount -= O2_used, then += O2_used
use_O2_rollback(t, O2_used) ==
    [t EXCEPT !.O2_total_amount = FAdd(FSub(t.O2_total_amount, O2_used), O2_used)]

\* use_O2, accepted branch: the two totals after the exchange
use_O2_exchange(t, O2_used, RQ) ==
    [t EXCEPT !.O2_total_amount = FSub(t.O2_total_amount, O2_used),
              !.CO2_total_amount = FAdd(t.CO2_total_amount, CO2_produced(O2_used, RQ))]

O2_reanchored(t, water_amount) ==
    [t EXCEPT !.O2_water_amount = water_amount,
              !.O2_water_concentration = FDiv(water_amount, t.volume)]

CO2_reanchored(t, water_amount) ==
    [t EXCEPT !.CO2_water_amount = water_amount,
              !.CO2_water_concentration = FDiv(water_amount, t.volume)]

\* use_O2, accepted branch: O2 redistributed and re-derived
use_O2_redistribute_O2(t) ==
    get_O2_values_from_conc(
        O2_reanchored(t, FDiv(t.O2_total_amount, FAdd(One, t.O2_mass_ratio))))

\* use_O2, accepted branch: CO2 redistributed and re-derived
use_O2_redistribute_CO2(t) ==
    get_CO2_values_from_conc(
        CO2_reanchored(t, FDiv(t.CO2_total_amount, FAdd(One, t.CO2_mass_ratio))))

\* use_O2, accepted branch, after the O2 derivation r: an exception raised
\* there leaves the call before the CO2 lines
use_O2_after_O2(r) ==
    IF r.raised THEN [self |-> r.self, outcome |-> "raised"]
    ELSE [self |-> use_O2_redistribute_CO2(r.self), outcome |-> "consumed"]

\* the accepted branch of use_O2
use_O2_consume(t, O2_used, RQ) ==
    use_O2_after_O2(use_O2_redistribute_O2(use_O2_exchange(t, O2_used, RQ)))

\* Tank.use_O2
use_O2(t, O2_used, RQ) ==
    IF FNegative(FSub(t.O2_total_amount, O2_used))
    THEN [self |-> use_O2_rollback(t, O2_used), outcome |-> "rejected"]
    ELSE use_O2_consume(t, O2_used, RQ)

----------------------------------------------------------------------------
(* The program: one Tank and the calls made on it *)

VARIABLES
    tank,     \* the Tank's attributes other than data
    data,     \* the attribute data, the table data_to_df stored last
    pre,      \* the Tank's attributes when the last call was made
    call,     \* the last call: its name, arguments and outcome, and the call before it
    ncalls    \* the number of calls made so far

vars == <<tank, data, pre, call, ncalls>>

\* arguments of the constructor
Volumes == {FromInt(100), FromInt(7)}
Headspaces == {Zero, FromInt(50)}
KHs == {FromInt(13), FromInt(4)}
room_CO2_default == RoundQ(58, 100)
room_O2_default == RoundQ(824, 100)

\* arguments of use_O2; the caller can read O2_total_amount and pass it
O2_used_inputs(t) ==
    {Zero, FromInt(10), FromInt(1000), FromInt(1048576), t.O2_total_amount}
RQ_inputs == {One, RoundQ(8, 10)}

Init ==
    \E volume \in Volumes, headspace \in Headspaces, KH \in KHs :
        /\ tank = Tank(volume, headspace, KH, room_CO2_default, room_O2_default)
        /\ data = data_to_df(tank).data
        /\ pre = tank
        /\ call = [op |-> "__init__", prev |-> "", O2_used |-> Zero, RQ |-> One,
                   outcome |-> "returned"]
        /\ ncalls = 0

Call_use_O2 ==
    \E RQ \in RQ_inputs : \E O2_used \in O2_used_inputs(tank) :
        /\ ncalls < MaxCalls
        /\ \E r \in {use_O2(tank, O2_used, RQ)} :
               /\ tank' = r.self
               /\ call' = [op |-> "use_O2", prev |-> call.op, O2_used |-> O2_used,
                           RQ |-> RQ, outcome |-> r.outcome]
        /\ pre' = tank
        /\ ncalls' = ncalls + 1
        /\ UNCHANGED data

Call_get_CO2_values_from_conc ==
    /\ ncalls < MaxCalls
    /\ tank' = get_CO2_values_from_conc(tank)
    /\ call' = [op |-> "get_CO2_values_from_conc", prev |-> call.op, O2_used |-> Zero,
                RQ |-> One, outcome |-> "returned"]
    /\ pre' = tank
    /\ ncalls' = ncalls + 1
    /\ UNCHANGED data

Call_get_O2_values_from_conc ==
    /\ ncalls < MaxCalls
    /\ \E r \in {get_O2_values_from_conc(tank)} :
           /\ tank' = r.self
           /\ call' = [op |-> "get_O2_values_from_conc", prev |-> call.op, O2_used |-> Zero,
                       RQ |-> One, outcome |-> IF r.raised THEN "raised" ELSE "returned"]
    /\ pre' = tank
    /\ ncalls' = ncalls + 1
    /\ UNCHANGED data

\* repr(tank): __repr__ calls data_to_df
Call_repr ==
    /\ ncalls < MaxCalls
    /\ \E r \in {data_to_df(tank)} :
           /\ data' = IF r.raised THEN data ELSE r.data
           /\ call' = [op |-> "__repr__", prev |-> call.op, O2_used |-> Zero,
                       RQ |-> One, outcome |-> IF r.raised THEN "raised" ELSE "returned"]
    /\ pre' = tank
    /\ ncalls' = ncalls + 1
    /\ UNCHANGED tank

Next ==
    \/ Call_use_O2
    \/ Call_get_CO2_values_from_conc
    \/ Call_get_O2_values_from_conc
    \/ Call_repr

Spec == Init /\ [][Next]_vars

----------------------------------------------------------------------------
(* Exact arithmetic on the values of floats, used to state properties.     *)
(* A value is a pair <<m, e>> standing for m * 2^e, not normalised.        *)

RECURSIVE Strip(_)
Strip(x) ==
    IF x[1] = 0 THEN Zero
    ELSE IF x[1] % 2 = 0 THEN Strip(<<x[1] \div 2, x[2] + 1>>)
    ELSE x

DAdd(x, y) ==
    LET a == Strip(x)
        b == Strip(y)
        e0 == IF a[2] <= b[2] THEN a[2] ELSE b[2]
    IN  IF a = Zero THEN b
        ELSE IF b = Zero THEN a
        ELSE Strip(<<a[1] * 2^(a[2] - e0) + b[1] * 2^(b[2] - e0), e0>>)

DNeg(x) == <<-x[1], x[2]>>

DSub(x, y) == DAdd(x, DNeg(y))

DMul(x, y) ==
    LET a == Strip(x)
        b == Strip(y)
    IN  Strip(<<a[1] * b[1], a[2] + b[2]>>)

DAbs(x) == <<Abs(x[1]), x[2]>>

\* x <= y
DLeq(x, y) == DSub(x, y)[1] <= 0

\* 44/32, the ratio of the molar masses
MassRatio == <<11, -3>>

\* a equals ref up to rounding: |a - ref| <= 2^(4-P) * |ref|
Within(a, ref) ==
    LET d == DAbs(DSub(a, ref))
    IN  DLeq(<<d[1], d[2] + P - 4>>, DAbs(ref))

LastUse == call.op = "use_O2"

Consumed == LastUse /\ call.outcome = "consumed"

----------------------------------------------------------------------------
(* Properties *)

\* C1: a call use_O2(O2_used, RQ) with O2_used > O2_total_amount leaves every
\* field of the Tank equal to its value before the call.
C1_NoOpGuard ==
    (LastUse /\ FLess(pre.O2_total_amount, call.O2_used)) => tank = pre

\* C2 as stated: after an accepted call that has finished, O2_total_amount is
\* its previous value minus exactly O2_used, and CO2_total_amount its previous
\* value plus exactly RQ * (44/32) * O2_used.
C2_ExactMassBalance ==
    Consumed =>
        /\ DSub(tank.O2_total_amount, DSub(pre.O2_total_amount, call.O2_used)) = Zero
        /\ DSub(tank.CO2_total_amount,
                DAdd(pre.CO2_total_amount,
                     DMul(DMul(call.RQ, MassRatio), call.O2_used))) = Zero

\* C2 amended: after an accepted call that has finished, O2_total_amount is
\* its previous value minus O2_used and CO2_total_amount its previous value
\* plus RQ * (44/32) * O2_used, both up to the rounding of the floating-point
\* operations (a relative error of at most 2^(4-P)), not exactly.
C2_MassBalanceToRounding ==
    Consumed =>
        /\ Within(tank.O2_total_amount, DSub(pre.O2_total_amount, call.O2_used))
        /\ Within(tank.CO2_total_amount,
                  DAdd(pre.CO2_total_amount,
                       DMul(DMul(call.RQ, MassRatio), call.O2_used)))

\* an accepted call has consumed 10 mg at RQ = 1 and has finished
C2_Witness ==
    /\ Consumed
    /\ call.O2_used = FromInt(10)
    /\ call.RQ = One
    /\ FLess(tank.O2_total_amount, pre.O2_total_amount)
    /\ FLess(pre.CO2_total_amount, tank.CO2_total_amount)

\* the derived fields of one gas are the formula values for its water concentration
DerivedFrom(conc, ratio, wa, ha, ta, tc, hc) ==
    /\ wa = FMul(conc, tank.volume)
    /\ ha = FMul(FMul(ratio, conc), tank.headspace)
    /\ ta = FAdd(wa, ha)
    /\ tc = FDiv(ta, FAdd(tank.volume, tank.headspace))
    /\ hc = IF tank.headspace = Zero THEN NaN ELSE FDiv(ha, tank.headspace)

\* C3: after construction and after every use_O2 call, every derived field of
\* each gas equals the formula value for the current water concentration.
C3_Equilibrated ==
    (call.op \in {"__init__", "use_O2"}) =>
        /\ DerivedFrom(tank.CO2_water_concentration, CO2_ratio,
                       tank.CO2_water_amount, tank.CO2_headspace_amount,
                       tank.CO2_total_amount, tank.CO2_total_concentration,
                       tank.CO2_headspace_concentration)
        /\ DerivedFrom(tank.O2_water_concentration, O2_ratio,
                       tank.O2_water_amount, tank.O2_headspace_amount,
                       tank.O2_total_amount, tank.O2_total_concentration,
                       tank.O2_headspace_concentration)

\* C4: no call use_O2(O2_used, RQ) with O2_used >= 0 and RQ > 0 raises an error.
C4_NeverRaises == ~(LastUse /\ call.outcome = "raised")

\* C5: the table held in data equals the table derived from the current fields.
C5_DataFresh == data = data_to_df(tank).data

\* C6: after every use_O2 call, water_amount * (1 + mass_ratio) == total_amount
\* for each gas.
C6_PartitionIdentity ==
    LastUse =>
        /\ FMul(tank.O2_water_amount, FAdd(One, tank.O2_mass_ratio)) = tank.O2_total_amount
        /\ FMul(tank.CO2_water_amount, FAdd(One, tank.CO2_mass_ratio)) = tank.CO2_total_amount

\* C7: in every state between operations, total_amount == water_amount +
\* headspace_amount for CO2 and for O2.
C7_TotalIsSum ==
    /\ tank.CO2_total_amount = FAdd(tank.CO2_water_amount, tank.CO2_headspace_amount)
    /\ tank.O2_total_amount = FAdd(tank.O2_water_amount, tank.O2_headspace_amount)

\* C8: in a Tank built with headspace == 0, the headspace concentration of each
\* gas is the undefined marker and its headspace amount is exactly 0.
C8_ZeroHeadspace ==
    (tank.headspace = Zero) =>
        /\ tank.CO2_headspace_concentration = NaN
        /\ tank.O2_headspace_concentration = NaN
        /\ tank.CO2_headspace_amount = Zero
        /\ tank.O2_headspace_amount = Zero

\* a Tank without headspace has consumed O2
C8_Witness ==
    /\ tank.headspace = Zero
    /\ Consumed
    /\ call.O2_used = FromInt(10)

CO2_fields(t) ==
    <<t.CO2_water_concentration, t.CO2_water_amount, t.CO2_headspace_amount,
      t.CO2_total_amount, t.CO2_total_concentration, t.CO2_headspace_concentration>>

O2_fields(t) ==
    <<t.O2_water_concentration, t.O2_water_amount, t.O2_headspace_amount,
      t.O2_total_amount, t.O2_total_concentration, t.O2_headspace_concentration,
      t.O2_amount_ratio>>

\* C9: running the derivation of a gas twice in a row gives the same fields as
\* running it once; it keeps the water concentration it reads and the other
\* gas's fields.
C9_DerivationIdempotent ==
    LET c1 == get_CO2_values_from_conc(tank)
        o1 == get_O2_values_from_conc(tank)
    IN  /\ get_CO2_values_from_conc(c1) = c1
        /\ c1.CO2_water_concentration = tank.CO2_water_concentration
        /\ O2_fields(c1) = O2_fields(tank)
        /\ get_O2_values_from_conc(o1.self) = o1
        /\ o1.self.O2_water_concentration = tank.O2_water_concentration
        /\ CO2_fields(o1.self) = CO2_fields(tank)
        /\ (call.op = "get_CO2_values_from_conc" /\ call.prev = call.op) => tank = pre
        /\ (call.op = "get_O2_values_from_conc" /\ call.prev = call.op) => tank = pre

\* the O2 derivation has run twice in a row, after a use_O2 call, on a Tank
\* with headspace that holds O2
C9_Witness ==
    /\ call.op = "get_O2_values_from_conc"
    /\ call.prev = call.op
    /\ call.outcome = "returned"
    /\ ncalls = 3
    /\ FPositive(tank.headspace)
    /\ FPositive(tank.O2_total_amount)
    /\ tank = pre

\* C10: O2_total_amount and O2_water_concentration are never negative; a
\* use_O2 call never increases O2_total_amount and never decreases
\* CO2_total_amount.
C10_Monotone ==
    /\ ~FNegative(tank.O2_total_amount)
    /\ ~FNegative(tank.O2_water_concentration)
    /\ LastUse => /\ ~FLess(pre.O2_total_amount, tank.O2_total_amount)
                  /\ ~FLess(tank.CO2_total_amount, pre.CO2_total_amount)

====
